---- MODULE Spec2Model ----
(***************************************************************************)
(* Model of src/index.ts: the Logseq "Export page with journals" plugin.   *)
(*                                                                         *)
(* buildMdBlock renders one block tree as an indented Markdown list;       *)
(* buildMd fetches a page's blocks and its linked references, keeps the    *)
(* references that come from journal pages of the current week, sorts      *)
(* them newest first, strips the links to the page from their blocks and   *)
(* assembles one document.                                                 *)
(*                                                                         *)
(* A JavaScript string is modelled as a sequence of one-character strings, *)
(* so that replace, trim, search, slice, repeat, join and padStart are     *)
(* computed character by character as the runtime computes them.           *)
(***************************************************************************)
EXTENDS Integers, Sequences, FiniteSets, TLC

VARIABLES
    pc,                          \* position of the handler / of buildMd
    page,                        \* the page name passed to buildMd
    today,                       \* the host clock: [y, m, d] in local time
    hostBlocks,                  \* what getPageBlocksTree answers for page
    hostRefs,                    \* what getPageLinkedReferences answers (pristine data)
    pageBlocks,                  \* buildMd local, line 34
    linkedReferences,            \* buildMd local, line 37: the entities handed to buildMd
    startOfWeekMondayYYYYMMDD,   \* buildMd local, line 50
    journalBlocks,               \* buildMd local, line 53: references into linkedReferences
    md_content,                  \* buildMd local, line 69
    gi,                          \* index of the outer map callback, line 76
    bi,                          \* index of the inner map callback, line 81
    md_journals,                 \* results of the inner map so far, line 81
    sections,                    \* results of the outer map so far, line 76
    log,                         \* what console.log received, one entry per invocation
    block,                       \* argument of a direct buildMdBlock call
    indent,                      \* argument of a direct buildMdBlock call
    result                       \* value returned by a direct buildMdBlock call

vars == << pc, page, today, hostBlocks, hostRefs, pageBlocks, linkedReferences,
           startOfWeekMondayYYYYMMDD, journalBlocks, md_content, gi, bi,
           md_journals, sections, log, block, indent, result >>

---------------------------------------------------------------------------
(* Bounds of the model.                                                    *)

MaxNodes == 4       \* nodes (blocks and placeholders) of a directly rendered tree
MaxIndent == 2      \* largest starting indent of a direct buildMdBlock call
MaxTokens == 3      \* tokens of a generated reference-block text
MaxGroups == 3      \* linked-reference entries of a generated collection
MaxRuns == 2        \* invocations of the menu command in one behaviour
FirstYear == 2023   \* first year of the clock's range
NumYears == 3       \* years in the clock's range

---------------------------------------------------------------------------
(* JavaScript string primitives used by the source.                        *)

Min(a, b) == IF a < b THEN a ELSE b
Max(a, b) == IF a > b THEN a ELSE b

\* ' '.repeat(n)
Repeat(c, n) == [i \in 1..n |-> c]

\* 1-based position of the first occurrence of pat in s, 0 when there is none
IndexOf(s, pat) ==
    LET hits == { i \in 1..(Len(s) - Len(pat) + 1) : SubSeq(s, i, i + Len(pat) - 1) = pat }
    IN  IF hits = {} THEN 0 ELSE CHOOSE i \in hits : \A j \in hits : i <= j

\* String.prototype.replace(pattern: string, ''): only the FIRST occurrence
\* of a string pattern is replaced.
ReplaceFirst(s, pat, rep) ==
    LET i == IndexOf(s, pat)
    IN  IF i = 0 THEN s
        ELSE SubSeq(s, 1, i - 1) \o rep \o SubSeq(s, i + Len(pat), Len(s))

WhiteSpace == { " ", "\t", "\n", "\r" }

\* String.prototype.trim()
Trim(s) ==
    LET keep == { i \in 1..Len(s) : s[i] \notin WhiteSpace }
    IN  IF keep = {} THEN << >>
        ELSE SubSeq(s, CHOOSE i \in keep : \A j \in keep : i <= j,
                       CHOOSE i \in keep : \A j \in keep : i >= j)

\* String.prototype.search(','): 0-based index of the first comma, -1 when none
Search(s, c) == IndexOf(s, << c >>) - 1

\* String.prototype.slice(start, end) with JavaScript's 0-based, clamped,
\* negative-from-the-end indices
Slice(s, start, end) ==
    LET n    == Len(s)
        from == IF start < 0 THEN Max(n + start, 0) ELSE Min(start, n)
        to   == IF end < 0 THEN Max(n + end, 0) ELSE Min(end, n)
    IN  IF from < to THEN SubSeq(s, from + 1, to) ELSE << >>

\* String.prototype.slice(start)
SliceFrom(s, start) == Slice(s, start, Len(s))

\* Array.prototype.join(sep) of an array of strings
RECURSIVE Join(_, _)
Join(parts, sep) ==
    IF parts = << >> THEN << >>
    ELSE IF Len(parts) = 1 THEN parts[1]
    ELSE parts[1] \o sep \o Join(Tail(parts), sep)

NL == << "\n" >>

---------------------------------------------------------------------------
(* buildMdBlock, lines 11-30.                                              *)

\* Array.isArray(child): a BlockUUIDTuple ['uuid', id] instead of a BlockEntity
IsArray(child) == "uuid" \in DOMAIN child

\* the line of a block with content, line 16
BlockLine(content, ind) == Repeat(" ", ind * 2) \o << "-", " " >> \o content \o NL

\* (mutant) every node takes a level, with text or without
NextIndentAlways(content, ind) == ind + 1

\* the indent handed to the children, lines 14-18
NextIndent(content, ind) == IF Len(content) > 0 THEN ind + 1 ELSE ind

\* the forEach callback's test, line 22
SkipsChild(child) == IsArray(child)

RECURSIVE buildMdBlock(_, _)
RECURSIVE ForEachChild(_, _, _)
buildMdBlock(b, ind) ==
    LET own == IF Len(b.content) > 0 THEN BlockLine(b.content, ind) ELSE << >>
    IN  own \o ForEachChild(b.children, 1, NextIndent(b.content, ind))

\* (mutant) a placeholder ends the loop over the children
ForEachChildBreak(children, k, next_indent) ==
    IF k > Len(children) \/ SkipsChild(children[k]) THEN << >>
    ELSE buildMdBlock(children[k], next_indent) \o ForEachChild(children, k + 1, next_indent)

\* the forEach over the children, lines 20-28
ForEachChild(children, k, next_indent) ==
    IF k > Len(children) THEN << >>
    ELSE (IF SkipsChild(children[k]) THEN << >>
          ELSE buildMdBlock(children[k], next_indent))
         \o ForEachChild(children, k + 1, next_indent)

---------------------------------------------------------------------------
(* Block trees handed to a direct buildMdBlock call.                       *)

Str_a == << "a" >>
Str_b == << "b", "c" >>
Contents == { << >>, Str_a, Str_b }

UUIDTuple == [uuid |-> "u1"]

RECURSIVE BlocksOfSize(_)
RECURSIVE ForestsOfSize(_)
ChildrenOfSize(k) == BlocksOfSize(k) \cup (IF k = 1 THEN { UUIDTuple } ELSE {})

ForestsOfSize(n) ==
    IF n = 0 THEN { << >> }
    ELSE UNION { { << h >> \o t : h \in ChildrenOfSize(k), t \in ForestsOfSize(n - k) }
                 : k \in 1..n }

BlocksOfSize(n) ==
    { [content |-> c, children |-> f] : c \in Contents, f \in ForestsOfSize(n - 1) }

BlockTrees == UNION { BlocksOfSize(n) : n \in 1..MaxNodes }

---------------------------------------------------------------------------
(* The Date object, lines 40-50, after ECMAScript's Day Number and Time    *)
(* Value algorithms. A Date is modelled by its local day number (days      *)
(* since 1970-01-01); the time within the day is carried along unchanged   *)
(* by setDate and read by none of the getters used.                        *)

IsLeap(y) == (y % 4 = 0 /\ y % 100 # 0) \/ y % 400 = 0

\* days of month mn (0 = January) of year y
DaysInMonth(y, mn) ==
    IF mn = 1 THEN (IF IsLeap(y) THEN 29 ELSE 28)
    ELSE IF mn \in { 3, 5, 8, 10 } THEN 30 ELSE 31

DayFromYear(y) ==
    365 * (y - 1970) + ((y - 1969) \div 4) - ((y - 1901) \div 100) + ((y - 1601) \div 400)

RECURSIVE DaysBeforeMonth(_, _)
DaysBeforeMonth(y, mn) ==
    IF mn = 0 THEN 0 ELSE DaysBeforeMonth(y, mn - 1) + DaysInMonth(y, mn - 1)

\* MakeDay(year, month, date): date may be zero or negative
MakeDay(y, mn, dt) == DayFromYear(y) + DaysBeforeMonth(y, mn) + dt - 1

YearRange == (FirstYear - 1)..(FirstYear + NumYears)

YearFromTime(t) == CHOOSE y \in YearRange : DayFromYear(y) <= t /\ t < DayFromYear(y + 1)
DayWithinYear(t) == t - DayFromYear(YearFromTime(t))
MonthFromTime(t) ==
    LET y == YearFromTime(t)
    IN  CHOOSE mn \in 0..11 : /\ DaysBeforeMonth(y, mn) <= DayWithinYear(t)
                              /\ DayWithinYear(t) < DaysBeforeMonth(y, mn) + DaysInMonth(y, mn)
DateFromTime(t) == DayWithinYear(t) - DaysBeforeMonth(YearFromTime(t), MonthFromTime(t)) + 1

\* new Date(): the clock's local calendar date as a day number
NewDate(d) == MakeDay(d.y, d.m - 1, d.d)

\* Date.prototype.getDay(): 0 = Sunday ... 6 = Saturday (1970-01-01 was a Thursday)
GetDay(t) == (t + 4) % 7
GetDate(t) == DateFromTime(t)
GetMonth(t) == MonthFromTime(t)
GetFullYear(t) == YearFromTime(t)

\* Date.prototype.setDate(dt)
SetDate(t, dt) == MakeDay(YearFromTime(t), MonthFromTime(t), dt)

Digit == << "0", "1", "2", "3", "4", "5", "6", "7", "8", "9" >>

\* Number.prototype.toString() of a non-negative integer
RECURSIVE NumberToString(_)
NumberToString(n) == IF n < 10 THEN << Digit[n + 1] >> ELSE NumberToString(n \div 10) \o << Digit[(n % 10) + 1] >>

\* String.prototype.padStart(len, '0')
PadStart(s, len, c) == Repeat(c, Max(len - Len(s), 0)) \o s

DigitValue(c) == (CHOOSE i \in 1..10 : Digit[i] = c) - 1

\* parseInt(s, 10) of a string of decimal digits
RECURSIVE ParseInt(_)
ParseInt(s) ==
    IF s = << >> THEN 0
    ELSE ParseInt(SubSeq(s, 1, Len(s) - 1)) * 10 + DigitValue(s[Len(s)])

\* (mutant) the week starts on Sunday
DaysToSubtractFromSunday(dayOfWeek) == dayOfWeek

\* line 44
DaysToSubtract(dayOfWeek) == (dayOfWeek + 6) % 7

\* lines 40-50
StartOfWeekMonday(clock) ==
    LET t           == NewDate(clock)
        dayOfWeek   == GetDay(t)
        startOfWeek == SetDate(t, GetDate(t) - DaysToSubtract(dayOfWeek))
        year        == GetFullYear(startOfWeek)
        month       == PadStart(NumberToString(GetMonth(startOfWeek) + 1), 2, "0")
        day         == PadStart(NumberToString(GetDate(startOfWeek)), 2, "0")
    IN  ParseInt(NumberToString(year) \o month \o day)

---------------------------------------------------------------------------
(* Linked references, lines 37 and 53-66. An entry is the pair             *)
(* << page, blocks >>; a page that is null, and a journalDay that is       *)
(* absent, are the empty sequence, a present one is a one-element sequence.*)

Null == << >>
Some(v) == << v >>

PageOf(ref) == ref[1]
BlocksOf(ref) == ref[2]

\* !page || !page.journalDay, line 56
NotJournal(p) == p = Null \/ p[1].journalDay = Null \/ p[1].journalDay[1] = 0

\* (mutant) the week's Monday itself is left out
KeepsRefAfter(ref, start) ==
    IF NotJournal(PageOf(ref)) THEN FALSE
    ELSE PageOf(ref)[1].journalDay[1] > start

\* the filter callback, lines 53-62
KeepsRef(ref, start) ==
    IF NotJournal(PageOf(ref)) THEN FALSE
    ELSE PageOf(ref)[1].journalDay[1] >= start

\* x[0]?.journalDay ?? 0, line 65
JournalDayOr0(ref) ==
    IF PageOf(ref) = Null \/ PageOf(ref)[1].journalDay = Null THEN 0
    ELSE PageOf(ref)[1].journalDay[1]

\* (mutant) oldest first
CompareAscending(a, b) == JournalDayOr0(a) - JournalDayOr0(b)

\* the sort comparator, line 65
Compare(a, b) == JournalDayOr0(b) - JournalDayOr0(a)

\* Array.prototype.filter over the entries, giving references (indices) to them
RECURSIVE FilterRefs(_, _, _)
FilterRefs(refs, k, start) ==
    IF k > Len(refs) THEN << >>
    ELSE (IF KeepsRef(refs[k], start) THEN << k >> ELSE << >>) \o FilterRefs(refs, k + 1, start)

\* Array.prototype.sort: stable; x goes before the first element that must follow it
RECURSIVE InsertSorted(_, _, _)
InsertSorted(refs, sorted, x) ==
    IF sorted = << >> THEN << x >>
    ELSE IF Compare(refs[sorted[1]], refs[x]) > 0
         THEN << x >> \o sorted
         ELSE << sorted[1] >> \o InsertSorted(refs, Tail(sorted), x)

RECURSIVE SortRefs(_, _)
SortRefs(refs, idx) ==
    IF idx = << >> THEN << >>
    ELSE InsertSorted(refs, SortRefs(refs, SubSeq(idx, 1, Len(idx) - 1)), idx[Len(idx)])

\* lines 53-66
JournalBlocks(refs, start) == SortRefs(refs, FilterRefs(refs, 1, start))

---------------------------------------------------------------------------
(* Text cleanup and date reformat, lines 84 and 91-96.                     *)

TagOf(p) == << "#", "[", "[" >> \o p \o << "]", "]" >>
LinkOf(p) == << "[", "[" >> \o p \o << "]", "]" >>

\* line 84
CleanContent(content, p) ==
    Trim(ReplaceFirst(ReplaceFirst(content, TagOf(p), << >>), LinkOf(p), << >>))

\* (mutant) the children's texts are cleaned as well
RECURSIVE CleanedBlockDeep(_, _)
CleanedBlockDeep(b, p) ==
    IF IsArray(b) THEN b
    ELSE [content  |-> CleanContent(b.content, p),
          children |-> [i \in 1..Len(b.children) |-> CleanedBlockDeep(b.children[i], p)]]

\* the block after line 84: only its own content is assigned
CleanedBlock(b, p) == [b EXCEPT !.content = CleanContent(b.content, p)]

\* (mutant) one character is cut instead of two
ReformatDateOneOff(originalName) ==
    LET index == Search(originalName, ",")
    IN  Slice(originalName, 0, index - 1) \o SliceFrom(originalName, index)

\* lines 91-93
ReformatDate(originalName) ==
    LET index == Search(originalName, ",")
    IN  Slice(originalName, 0, index - 2) \o SliceFrom(originalName, index)

\* line 96
Section(header, journals) ==
    << "*", "*" >> \o ReformatDate(header.originalName) \o << "*", "*" >> \o NL \o journals

Rule == << "-", "-", "-", "-" >> \o NL
Backlog == << "#", "#", " ", "B", "a", "c", "k", "l", "o", "g" >> \o NL

RECURSIVE MapBuildMdBlock(_)
MapBuildMdBlock(blocks) ==
    IF blocks = << >> THEN << >>
    ELSE << buildMdBlock(blocks[1], 0) >> \o MapBuildMdBlock(Tail(blocks))

\* lines 69-73
PageMd(blocks) == Join(MapBuildMdBlock(blocks), NL) \o Rule \o Backlog

---------------------------------------------------------------------------
(* The data the host answers with: the inputs of buildMd.                  *)

Blk(c, kids) == [content |-> c, children |-> kids]
Leaf(c) == Blk(c, << >>)
JournalPage(name, jd) == Some([originalName |-> name, journalDay |-> jd])
Clock(y, m, d) == [y |-> y, m |-> m, d |-> d]

S_Page == << "P", "a", "g", "e" >>
S_Foo == << "F", "o", "o" >>
S_A == << "A" >>
S_B == << "B" >>
S_B1 == << "B", "1" >>
S_Task == << "T", "a", "s", "k", " ", "#", "[", "[", "P", "a", "g", "e", "]", "]" >>
S_Jan2nd == << "J", "a", "n", "u", "a", "r", "y", " ", "2", "n", "d", ",", " ", "2", "0", "2", "4" >>
S_Jan3rd == << "J", "a", "n", "u", "a", "r", "y", " ", "3", "r", "d", ",", " ", "2", "0", "2", "4" >>
S_Oct26th == << "O", "c", "t", "o", "b", "e", "r", " ", "2", "6", "t", "h", ",", " ", "2", "0", "2", "3" >>
S_Hello == << "H", "e", "l", "l", "o", " ", "#", "[", "[", "F", "o", "o", "]", "]", " ", "w", "o", "r", "l", "d", " ", "[", "[", "F", "o", "o", "]", "]", " ", "!" >>
S_lower == << "[", "[", "f", "o", "o", "]", "]" >>
S_child == << "c", " ", "[", "[", "F", "o", "o", "]", "]" >>
S_dropped == << "d", " ", "#", "[", "[", "F", "o", "o", "]", "]" >>
S_outline == << "p", " ", "[", "[", "F", "o", "o", "]", "]" >>

\* one input of buildMd
Input(p, clock, blocks, refs) == [page |-> p, today |-> clock, blocks |-> blocks, refs |-> refs]

\* the end-to-end example: outline A, B (child B1), one reference from January 2nd, 2024
EndToEndInput ==
    Input(S_Page, Clock(2024, 1, 3),
          << Leaf(S_A), Blk(S_B, << Leaf(S_B1) >>) >>,
          << << JournalPage(S_Jan2nd, Some(20240102)), << Leaf(S_Task) >> >> >>)

\* texts of reference blocks: up to MaxTokens tokens, each a tag, a link, a
\* link in another case, a space, a letter or a lone '#'
Tokens == { TagOf(S_Foo), LinkOf(S_Foo), S_lower, << " " >>, << "a" >>, << "#" >> }

RECURSIVE TextsOfTokens(_)
TextsOfTokens(n) ==
    IF n = 0 THEN { << >> }
    ELSE LET shorter == TextsOfTokens(n - 1)
         IN  shorter \cup { t \o k : t \in shorter, k \in Tokens }

ReferenceTexts == TextsOfTokens(MaxTokens) \cup { S_Hello }

\* one journal entry of this week whose first block has the text, a child that
\* links to the page and an unresolved child; one entry of a non-journal page;
\* an outline that links to the page
CleanupInputs ==
    { Input(S_Foo, Clock(2024, 1, 3),
            << Leaf(S_outline) >>,
            << << JournalPage(S_Jan3rd, Some(20240103)),
                  << Blk(t, << Leaf(S_child), UUIDTuple >>), Leaf(LinkOf(S_Foo)) >> >>,
               << JournalPage(S_Jan2nd, Some(0)), << Leaf(S_dropped) >> >> >>)
      : t \in ReferenceTexts }

\* the page of the k-th entry of a generated collection: none, one without a
\* journalDay, or a journal page of some day around the turn of the year
EntryName(k) == << Digit[k + 1], "t", "h", ",", " ", "w" >>
JournalDays == { 0, 20231231, 20240101, 20240103, 20240108 }
EntryPages(k) ==
    { Null, JournalPage(EntryName(k), Null) }
        \cup { JournalPage(EntryName(k), Some(jd)) : jd \in JournalDays }

RECURSIVE Collections(_)
Collections(n) ==
    IF n = 0 THEN { << >> }
    ELSE { c \o << << p, << Leaf(<< "t", Digit[n + 1] >>) >> >> >>
           : c \in Collections(n - 1), p \in EntryPages(n) }

FilterInputs ==
    { Input(S_Foo, clock, << >>, c)
      : clock \in { Clock(2024, 1, 3), Clock(2024, 1, 10) },
        c \in UNION { Collections(n) : n \in 0..MaxGroups } }

\* display names, well formed and not
DisplayNames ==
    { S_Oct26th, S_Jan2nd,
      << "1", "s", "t", ",", "2", ",", "3" >>,       \* two commas
      << "t", "h", "," >>,                           \* nothing but the suffix
      << "O", "c", "t", "2", "6" >>,                 \* no comma
      << "a", "b" >>,                                \* no comma, short
      << >>,                                         \* empty
      << "," >>,                                     \* comma first
      << "a", ",", "b" >>,                           \* one character before the comma
      << ",", "a", "b", "c" >> }

DateInputs ==
    { Input(S_Foo, Clock(2024, 1, 3), << Leaf(S_A) >>,
            << << JournalPage(name, Some(20240103)), << Leaf(S_B) >> >> >>)
      : name \in DisplayNames }

Inputs == { EndToEndInput } \cup CleanupInputs \cup FilterInputs \cup DateInputs

---------------------------------------------------------------------------
(* The plugin: the page-menu command runs buildMd, lines 32-102 and 109.   *)

Undefined == << >>

\* buildMd has not run: its locals hold nothing
NoLocals ==
    /\ pageBlocks = Undefined
    /\ linkedReferences = Undefined
    /\ startOfWeekMondayYYYYMMDD = 0
    /\ journalBlocks = Undefined
    /\ md_content = << >>
    /\ gi = 1
    /\ bi = 1
    /\ md_journals = << >>
    /\ sections = << >>
    /\ log = << >>

NoDirectCall ==
    /\ block = Leaf(<< >>)
    /\ indent = 0
    /\ result = << >>

Init ==
    /\ \E in \in Inputs :
          /\ page = in.page
          /\ today = in.today
          /\ hostBlocks = in.blocks
          /\ hostRefs = in.refs
    /\ pc = "idle"
    /\ NoLocals
    /\ NoDirectCall

direct == << block, indent, result >>
host == << page, today, hostBlocks, hostRefs >>

\* the user picks 'Export page with journals', lines 109-111
Invoke ==
    /\ pc = "idle"
    /\ Len(log) < MaxRuns
    /\ pc' = "getPageBlocksTree"
    /\ UNCHANGED << host, pageBlocks, linkedReferences, startOfWeekMondayYYYYMMDD,
                    journalBlocks, md_content, gi, bi, md_journals, sections, log, direct >>

\* line 34
GetPageBlocksTree ==
    /\ pc = "getPageBlocksTree"
    /\ pageBlocks' = hostBlocks
    /\ pc' = "getPageLinkedReferences"
    /\ UNCHANGED << host, linkedReferences, startOfWeekMondayYYYYMMDD,
                    journalBlocks, md_content, gi, bi, md_journals, sections, log, direct >>

\* line 37: the host answers with fresh copies of its data, or hands back the
\* entities it handed out before
GetPageLinkedReferences ==
    /\ pc = "getPageLinkedReferences"
    /\ \E fresh \in BOOLEAN :
          linkedReferences' = IF fresh \/ log = << >> THEN hostRefs ELSE linkedReferences
    /\ pc' = "weekStart"
    /\ UNCHANGED << host, pageBlocks, startOfWeekMondayYYYYMMDD,
                    journalBlocks, md_content, gi, bi, md_journals, sections, log, direct >>

\* lines 40-50
WeekStart ==
    /\ pc = "weekStart"
    /\ startOfWeekMondayYYYYMMDD' = StartOfWeekMonday(today)
    /\ pc' = "filterSort"
    /\ UNCHANGED << host, pageBlocks, linkedReferences,
                    journalBlocks, md_content, gi, bi, md_journals, sections, log, direct >>

\* lines 53-66
FilterSort ==
    /\ pc = "filterSort"
    /\ journalBlocks' = JournalBlocks(linkedReferences, startOfWeekMondayYYYYMMDD)
    /\ pc' = "renderPage"
    /\ UNCHANGED << host, pageBlocks, linkedReferences, startOfWeekMondayYYYYMMDD,
                    md_content, gi, bi, md_journals, sections, log, direct >>

\* lines 69-73
RenderPage ==
    /\ pc = "renderPage"
    /\ md_content' = PageMd(pageBlocks)
    /\ gi' = 1
    /\ bi' = 1
    /\ md_journals' = << >>
    /\ sections' = << >>
    /\ pc' = "journals"
    /\ UNCHANGED << host, pageBlocks, linkedReferences, startOfWeekMondayYYYYMMDD,
                    journalBlocks, log, direct >>

\* the entry and the block the two map callbacks are at
CurrentRef == linkedReferences[journalBlocks[gi]]
CurrentBlock == BlocksOf(CurrentRef)[bi]

\* line 84: block.content is assigned in place, in the entity the host handed out
CleanBlock ==
    /\ pc = "journals"
    /\ gi <= Len(journalBlocks)
    /\ bi <= Len(BlocksOf(CurrentRef))
    /\ linkedReferences' =
          [linkedReferences EXCEPT ![journalBlocks[gi]][2][bi] = CleanedBlock(CurrentBlock, page)]
    /\ pc' = "renderBlock"
    /\ UNCHANGED << host, pageBlocks, startOfWeekMondayYYYYMMDD,
                    journalBlocks, md_content, gi, bi, md_journals, sections, log, direct >>

\* line 86
RenderBlock ==
    /\ pc = "renderBlock"
    /\ md_journals' = Append(md_journals, buildMdBlock(CurrentBlock, 0))
    /\ bi' = bi + 1
    /\ pc' = "journals"
    /\ UNCHANGED << host, pageBlocks, linkedReferences, startOfWeekMondayYYYYMMDD,
                    journalBlocks, md_content, gi, sections, log, direct >>

\* lines 87-96: the inner map is through; the entry's section is formatted
FormatSection ==
    /\ pc = "journals"
    /\ gi <= Len(journalBlocks)
    /\ bi > Len(BlocksOf(CurrentRef))
    /\ sections' = Append(sections, Section(PageOf(CurrentRef)[1], Join(md_journals, NL)))
    /\ gi' = gi + 1
    /\ bi' = 1
    /\ md_journals' = << >>
    /\ UNCHANGED << host, pc, pageBlocks, linkedReferences, startOfWeekMondayYYYYMMDD,
                    journalBlocks, md_content, log, direct >>

\* lines 97-99: the outer map is through; the document is joined and logged
Finish ==
    /\ pc = "journals"
    /\ gi > Len(journalBlocks)
    /\ md_content' = md_content \o Join(sections, NL)
    /\ log' = Append(log, md_content')
    /\ pc' = "idle"
    /\ UNCHANGED << host, pageBlocks, linkedReferences, startOfWeekMondayYYYYMMDD,
                    journalBlocks, gi, bi, md_journals, sections, direct >>

Next ==
    \/ Invoke
    \/ GetPageBlocksTree
    \/ GetPageLinkedReferences
    \/ WeekStart
    \/ FilterSort
    \/ RenderPage
    \/ CleanBlock
    \/ RenderBlock
    \/ FormatSection
    \/ Finish

Spec == Init /\ [][Next]_vars

---------------------------------------------------------------------------
(* buildMdBlock called directly, on every block tree of up to MaxNodes     *)
(* nodes and every starting indent up to MaxIndent.                        *)

InitRender ==
    /\ block \in BlockTrees
    /\ indent \in 0..MaxIndent
    /\ result = << >>
    /\ pc = "call"
    /\ page = S_Foo
    /\ today = Clock(2024, 1, 3)
    /\ hostBlocks = << >>
    /\ hostRefs = << >>
    /\ NoLocals

\* lines 11-30
CallBuildMdBlock ==
    /\ pc = "call"
    /\ result' = buildMdBlock(block, indent)
    /\ pc' = "returned"
    /\ UNCHANGED << host, pageBlocks, linkedReferences, startOfWeekMondayYYYYMMDD,
                    journalBlocks, md_content, gi, bi, md_journals, sections, log,
                    block, indent >>

SpecRender == InitRender /\ [][CallBuildMdBlock]_vars

---------------------------------------------------------------------------
(* The week-start computation of buildMd, lines 40-50, on every day of the *)
(* clock's range.                                                          *)

MonthLength(y, m) ==
    IF m = 2 THEN (IF (y % 4 = 0 /\ y % 100 # 0) \/ y % 400 = 0 THEN 29 ELSE 28)
    ELSE IF m \in { 4, 6, 9, 11 } THEN 30 ELSE 31

CalendarDays(years) ==
    { c \in [y : years, m : 1..12, d : 1..31] : c.d <= MonthLength(c.y, c.m) }

ClockDays == CalendarDays(FirstYear..(FirstYear + NumYears - 1))

InitWeek ==
    /\ today \in ClockDays
    /\ pc = "weekStart"
    /\ page = S_Foo
    /\ hostBlocks = << >>
    /\ hostRefs = << >>
    /\ NoLocals
    /\ NoDirectCall

SpecWeek == InitWeek /\ [][WeekStart]_vars

---------------------------------------------------------------------------
(* Reading a document back: its lines, and the nodes of a tree by path.    *)

\* the lines of a text, each ended by a line break
RECURSIVE SplitLines(_)
SplitLines(s) ==
    IF s = << >> THEN << >>
    ELSE LET i == IndexOf(s, NL)
         IN  IF i = 0 THEN << s >>
             ELSE << SubSeq(s, 1, i - 1) >> \o SplitLines(SubSeq(s, i + 1, Len(s)))

\* the number of spaces a line starts with
LeadingSpaces(l) ==
    LET other == { i \in 1..Len(l) : l[i] # " " }
    IN  IF other = {} THEN Len(l) ELSE (CHOOSE i \in other : \A j \in other : i <= j) - 1

\* the node a path of child positions leads to
RECURSIVE NodeAt(_, _)
NodeAt(b, path) == IF path = << >> THEN b ELSE NodeAt(b.children[path[1]], Tail(path))

\* the paths to the resolved nodes of a tree: nothing lies below a placeholder
RECURSIVE ResolvedPaths(_)
ResolvedPaths(b) ==
    { << >> } \cup UNION { { << k >> \o q : q \in ResolvedPaths(b.children[k]) }
                           : k \in { j \in 1..Len(b.children) : ~IsArray(b.children[j]) } }

\* the resolved nodes that have text
TextPaths(b) == { q \in ResolvedPaths(b) : NodeAt(b, q).content # << >> }

\* the ancestors of the node at a path that have text
TextAncestors(b, path) ==
    Cardinality({ i \in 0..(Len(path) - 1) : NodeAt(b, SubSeq(path, 1, i)).content # << >> })

\* pre-order: a node before its descendants, an earlier child's subtree before a later one's
IsPrefix(q, r) == Len(q) < Len(r) /\ SubSeq(r, 1, Len(q)) = q
PreBefore(q, r) ==
    \/ IsPrefix(q, r)
    \/ \E i \in 1..Min(Len(q), Len(r)) : /\ SubSeq(q, 1, i - 1) = SubSeq(r, 1, i - 1)
                                         /\ q[i] < r[i]

\* the position of a node with text among the nodes with text, in pre-order
PreOrderRank(b, path) == 1 + Cardinality({ q \in TextPaths(b) : PreBefore(q, path) })

---------------------------------------------------------------------------
(* Claims about buildMdBlock, under SpecRender.                            *)

\* C6. Indentation: every line buildMdBlock emits for a node starts with
\* exactly 2 * (indent + d) spaces followed by "- ", d being the number of the
\* node's ancestors in the rendered tree that have text; so a node without
\* text takes no level, and its children are indented as it would have been.
C6_Indentation ==
    pc = "returned" =>
        LET lines == SplitLines(result)
        IN  \A q \in TextPaths(block) :
               LET r == PreOrderRank(block, q)
                   n == 2 * (indent + TextAncestors(block, q))
               IN  /\ r <= Len(lines)
                   /\ LeadingSpaces(lines[r]) = n
                   /\ SubSeq(lines[r], n + 1, n + 2) = << "-", " " >>

\* a rendered tree whose root has no text, with a grandchild below a child that has text
C6_Witness ==
    /\ pc = "returned"
    /\ indent = 1
    /\ block.content = << >>
    /\ \E q \in TextPaths(block) : Len(q) = 2 /\ TextAncestors(block, q) = 1
    /\ SplitLines(result) = << << " ", " ", "-", " ", "a" >>,
                               << " ", " ", " ", " ", "-", " ", "b", "c" >> >>

\* C7. Completeness and order: buildMdBlock emits exactly one line per resolved
\* node with text, in pre-order, each line carrying its node's text; a
\* placeholder child is skipped and the siblings after it are still rendered.
C7_CompleteInPreOrder ==
    pc = "returned" =>
        LET lines == SplitLines(result)
        IN  /\ Len(lines) = Cardinality(TextPaths(block))
            /\ \A q \in TextPaths(block) :
                  LET l == lines[PreOrderRank(block, q)]
                  IN  SubSeq(l, LeadingSpaces(l) + 3, Len(l)) = NodeAt(block, q).content

\* a rendered tree with a placeholder between two resolved children that have text
C7_Witness ==
    /\ pc = "returned"
    /\ Len(block.children) = 3
    /\ IsArray(block.children[2])
    /\ ~IsArray(block.children[1])
    /\ ~IsArray(block.children[3])
    /\ block.children[1].content = Str_a
    /\ block.children[3].content = Str_b
    /\ block.content # << >>
    /\ Len(SplitLines(result)) = 3

---------------------------------------------------------------------------
(* The civil calendar, to state what the week start should be.             *)

\* the day of the week of a calendar date, 0 = Sunday ... 6 = Saturday
MonthKey == << 0, 3, 2, 5, 0, 3, 5, 1, 4, 6, 2, 4 >>
Weekday(c) ==
    LET y == IF c.m < 3 THEN c.y - 1 ELSE c.y
    IN  (y + (y \div 4) - (y \div 100) + (y \div 400) + MonthKey[c.m] + c.d) % 7

DayBefore(c) ==
    IF c.d > 1 THEN Clock(c.y, c.m, c.d - 1)
    ELSE IF c.m > 1 THEN Clock(c.y, c.m - 1, MonthLength(c.y, c.m - 1))
    ELSE Clock(c.y - 1, 12, 31)

RECURSIVE DaysBack(_, _)
DaysBack(c, k) == IF k = 0 THEN c ELSE DaysBack(DayBefore(c), k - 1)

Encode(c) == c.y * 10000 + c.m * 100 + c.d

\* calendar order
Earlier(c1, c2) ==
    \/ c1.y < c2.y
    \/ c1.y = c2.y /\ c1.m < c2.m
    \/ c1.y = c2.y /\ c1.m = c2.m /\ c1.d < c2.d

\* the Monday on or before a date
MondayOf(c) == DaysBack(c, (Weekday(c) + 6) % 7)

\* C8. Week start: the computed week start is today minus (dayOfWeek + 6) mod 7
\* days (0 on a Monday, 2 on a Wednesday, 6 on a Sunday), a Monday at most 6
\* days back also across a month or year boundary, encoded as
\* year*10000 + month*100 + day, so that a YYYYMMDD integer is at least the
\* week start exactly when its date is not earlier than that Monday.
C8_WeekStart ==
    pc = "filterSort" =>
        LET w      == Weekday(today)
            monday == DaysBack(today, (w + 6) % 7)
        IN  /\ startOfWeekMondayYYYYMMDD = Encode(monday)
            /\ (w = 1 => startOfWeekMondayYYYYMMDD = Encode(today))
            /\ (w = 3 => startOfWeekMondayYYYYMMDD = Encode(DaysBack(today, 2)))
            /\ (w = 0 => startOfWeekMondayYYYYMMDD = Encode(DaysBack(today, 6)))
            /\ Weekday(monday) = 1
            /\ \E k \in 0..6 : startOfWeekMondayYYYYMMDD = Encode(DaysBack(today, k))
            /\ \A c \in CalendarDays((FirstYear - 1)..(FirstYear + NumYears)) :
                  (Encode(c) >= startOfWeekMondayYYYYMMDD) <=> ~Earlier(c, monday)

\* New Year's Day 2025, a Wednesday: the week started in the year before
C8_Witness ==
    /\ pc = "filterSort"
    /\ today = Clock(2025, 1, 1)
    /\ Weekday(today) = 3
    /\ startOfWeekMondayYYYYMMDD = 20241230

---------------------------------------------------------------------------
(* Claims about buildMd, under Spec.                                       *)

IsHeader(l) == Len(l) >= 1 /\ l[1] = "*"

\* the lines of a document that head a section
HeaderLines(doc) == SelectSeq(SplitLines(doc), IsHeader)

\* the header line of an entry's section
HeaderOf(ref) ==
    << "*", "*" >> \o ReformatDate(PageOf(ref)[1].originalName) \o << "*", "*" >>

\* the entries that should be kept: a page, a journalDay that is present and
\* not zero, on or after the Monday of the clock's week
ShouldKeep(ref) ==
    /\ PageOf(ref) # Null
    /\ PageOf(ref)[1].journalDay # Null
    /\ PageOf(ref)[1].journalDay[1] # 0
    /\ PageOf(ref)[1].journalDay[1] >= Encode(MondayOf(today))

Kept == { k \in 1..Len(hostRefs) : ShouldKeep(hostRefs[k]) }

DayOfEntry(k) == PageOf(hostRefs[k])[1].journalDay[1]

\* newest first; of two entries of one day, the one fetched first
ComesBefore(j, k) ==
    \/ DayOfEntry(j) > DayOfEntry(k)
    \/ DayOfEntry(j) = DayOfEntry(k) /\ j < k

Rank(k) == 1 + Cardinality({ j \in Kept : ComesBefore(j, k) })

ExpectedEndToEnd ==
    << << "-", " ", "A" >>,
       << "-", " ", "B" >>,
       << " ", " ", "-", " ", "B", "1" >>,
       << "-", "-", "-", "-" >>,
       << "#", "#", " ", "B", "a", "c", "k", "l", "o", "g" >>,
       << "*", "*", "J", "a", "n", "u", "a", "r", "y", " ", "2", ",", " ", "2", "0", "2", "4", "*", "*" >>,
       << "-", " ", "T", "a", "s", "k" >> >>

\* C1. End to end: for the outline A, B (child B1) and the one reference
\* "Task #[[Page]]" of January 2nd, 2024, the document is exactly the lines
\* - A / - B /   - B1 / ---- / ## Backlog / **January 2, 2024** / - Task,
\* with no empty line between any two of them.
C1_EndToEnd ==
    (/\ page = S_Page
     /\ hostBlocks = EndToEndInput.blocks
     /\ hostRefs = EndToEndInput.refs
     /\ Len(log) >= 1)
        => SplitLines(log[1]) = ExpectedEndToEnd

\* C2. Text cleanup: once a block of a kept entry has been cleaned, its text
\* holds no occurrence of #[[page]] or [[page]] any more and has no leading
\* or trailing white space.
C2_Cleanup ==
    pc = "renderBlock" =>
        /\ IndexOf(CurrentBlock.content, TagOf(page)) = 0
        /\ IndexOf(CurrentBlock.content, LinkOf(page)) = 0
        /\ CurrentBlock.content = Trim(CurrentBlock.content)

\* C3. Idempotence: every invocation with the same page, clock and fetch
\* results logs the document the first one logged, also when the host hands
\* back the entities an earlier invocation cleaned.
C3_Idempotent == \A i \in 1..Len(log) : log[i] = log[1]

\* C4. Filtering: in the document an export has logged, an entry has a
\* section exactly when it has a page with a journalDay that is present, not
\* zero and not before the Monday of the week; the others are dropped
\* without an error and without a trace.
C4_Filter ==
    pc = "idle" /\ log # << >> =>
        LET hs == HeaderLines(log[Len(log)])
        IN  /\ Len(hs) = Cardinality(Kept)
            /\ \A k \in 1..Len(hostRefs) :
                  (/\ PageOf(hostRefs[k]) # Null
                   /\ \E i \in 1..Len(hs) : hs[i] = HeaderOf(hostRefs[k]))
                      <=> k \in Kept

\* a collection with an entry without a page, one without a journalDay, one
\* with journalDay 0, one of last week and one of this week's Monday, exported
C4_Witness ==
    /\ Len(log) >= 1
    /\ Len(hostRefs) = 3
    /\ PageOf(hostRefs[1]) = Null
    /\ PageOf(hostRefs[2]) # Null
    /\ PageOf(hostRefs[2])[1].journalDay = Some(20231231)
    /\ PageOf(hostRefs[3]) # Null
    /\ PageOf(hostRefs[3])[1].journalDay = Some(20240101)
    /\ today = Clock(2024, 1, 3)
    /\ HeaderLines(log[1]) = << HeaderOf(hostRefs[3]) >>

\* C5. Sorting: in the document an export has logged, the sections are those
\* of the kept entries, each once; one
\* comes before another exactly when its journalDay is greater, or equal
\* with the entry fetched earlier.
C5_Sort ==
    pc = "idle" /\ log # << >> =>
        LET hs == HeaderLines(log[Len(log)])
            Pos(k) == CHOOSE i \in 1..Len(hs) : hs[i] = HeaderOf(hostRefs[k])
        IN  /\ Len(hs) = Cardinality(Kept)
            /\ \A k \in Kept : \E i \in 1..Len(hs) : hs[i] = HeaderOf(hostRefs[k])
            /\ \A j, k \in Kept : j # k => (Pos(j) < Pos(k) <=> ComesBefore(j, k))

\* three kept entries fetched as day 3, day 8, day 3: exported as 8, 3, 3
C5_Witness ==
    /\ Len(log) >= 1
    /\ Len(hostRefs) = 3
    /\ Kept = { 1, 2, 3 }
    /\ DayOfEntry(1) = 20240103
    /\ DayOfEntry(2) = 20240108
    /\ DayOfEntry(3) = 20240103
    /\ HeaderLines(log[1]) = << HeaderOf(hostRefs[2]), HeaderOf(hostRefs[1]), HeaderOf(hostRefs[3]) >>

\* 1-based position of the first comma of a display name, 0 when there is none
CommaAt(name) == IndexOf(name, << "," >>)

\* a display name without the two characters before its first comma
WithoutOrdinal(name) ==
    [i \in 1..(Len(name) - 2) |-> IF i <= CommaAt(name) - 3 THEN name[i] ELSE name[i + 2]]

\* C9. Date reformat: in the document an export has logged, every kept
\* entry's header is ** + its display name
\* without the two characters before the first comma + **; a display name
\* without a comma, or with fewer than two characters before it, still gets
\* a header, with a cut or otherwise wrong date (without a comma: the name
\* less its third and second last characters).
C9_DateReformat ==
    pc = "idle" /\ log # << >> =>
        LET hs == HeaderLines(log[Len(log)])
        IN  /\ Len(hs) = Cardinality(Kept)
            /\ \A k \in Kept :
                  LET name == PageOf(hostRefs[k])[1].originalName
                      h    == hs[Rank(k)]
                      date == SubSeq(h, 3, Len(h) - 2)
                  IN  /\ Len(h) >= 4
                      /\ SubSeq(h, 1, 2) = << "*", "*" >>
                      /\ SubSeq(h, Len(h) - 1, Len(h)) = << "*", "*" >>
                      /\ (CommaAt(name) >= 3 => date = WithoutOrdinal(name))
                      /\ (CommaAt(name) = 0 /\ Len(name) >= 3 =>
                            date = SubSeq(name, 1, Len(name) - 3) \o << name[Len(name)] >>)

\* the entry of October 26th, 2023, exported
C9_Witness ==
    /\ Len(log) >= 1
    /\ Len(hostRefs) = 1
    /\ PageOf(hostRefs[1]) # Null
    /\ PageOf(hostRefs[1])[1].originalName = S_Oct26th
    /\ HeaderLines(log[1]) = << << "*", "*", "O", "c", "t", "o", "b", "e", "r", " ", "2", "6", ",", " ", "2", "0", "2", "3", "*", "*" >> >>

\* C10. Frame of the cleanup: a step of buildMd changes the fetched entities
\* only by assigning the text of one top-level block of a kept entry, a block
\* that this invocation has not rendered yet and renders next, from that
\* text; pages, children, descendants, dropped entries and the outline stay
\* as they are.
C10_Frame ==
    [][ /\ (pc # "getPageBlocksTree" => pageBlocks' = pageBlocks)
        /\ (pc # "getPageLinkedReferences" =>
              IF pc' = "renderBlock"
              THEN /\ gi \in 1..Len(journalBlocks)
                   /\ journalBlocks[gi] \in Kept
                   /\ bi \in 1..Len(BlocksOf(linkedReferences[journalBlocks[gi]]))
                   /\ Len(md_journals) = bi - 1
                   /\ linkedReferences' =
                         [linkedReferences EXCEPT ![journalBlocks[gi]][2][bi] =
                             [@ EXCEPT !.content = linkedReferences'[journalBlocks[gi]][2][bi].content]]
              ELSE linkedReferences' = linkedReferences)
        /\ (pc = "renderBlock" =>
              /\ Len(md_journals') = bi
              /\ md_journals'[bi] = buildMdBlock(linkedReferences[journalBlocks[gi]][2][bi], 0)
              /\ SubSeq(md_journals', 1, bi - 1) = md_journals)
      ]_vars

\* an export that changed the text of a kept entry's block, whose child, the
\* dropped entry and the outline still link to the page
C10_Witness ==
    /\ pc = "idle"
    /\ Len(log) = 1
    /\ Len(hostRefs) = 2
    /\ linkedReferences[1][2][1].content # hostRefs[1][2][1].content
    /\ linkedReferences[1][2][1].children = << Leaf(S_child), UUIDTuple >>
    /\ linkedReferences[2] = hostRefs[2]
    /\ BlocksOf(linkedReferences[2]) = << Leaf(S_dropped) >>
    /\ pageBlocks = << Leaf(S_outline) >>

====
